---- MODULE Spec2Model ----
\* TSPSCQueue<unsigned>: unbounded single-producer/single-consumer list queue
\* (src/SPSCQueue/SPSCQueue.h), one producer thread calling Enqueue and one
\* consumer thread calling Dequeue.  Every load and store of shared memory is
\* one step, so the two threads interleave at the granularity of the code's
\* atomic accesses.  A load returns the value of the latest store to the
\* location: memory_order_consume is taken as acquire (what compilers
\* implement), and a store counts as done when it is visible to the other
\* thread.  The test's start barrier (src/SPSCQueue/SPSCQueueTest.cpp, wait and
\* RunThreads) is modelled with it: BarrierSpec runs the threads up to their
\* loops, the other specifications start with both threads inside them.
EXTENDS Integers, Sequences, FiniteSets, TLC

\* ---------------------------------------------------------------- bounds
MaxEnq == 4          \* Enqueue calls the producer makes at most

NULL == 0            \* nullptr
Undef == 0           \* payload of a default-constructed Node (never a Value)
MaxNodes == MaxEnq + 1
Nodes == 1..MaxNodes
Addr == 0..MaxNodes
Values == 1..MaxEnq  \* payloads (T = unsigned), enough for all-distinct runs

VARIABLES
    \* heap
    allocated,       \* nodes obtained from operator new
    freed,           \* [Nodes -> Nat]: how often a node was passed to delete
    m_next,          \* Node::m_next
    m_data,          \* Node::m_data
    \* queue members
    m_tail, m_head, m_first, m_tailCopy,
    \* producer thread: position, Enqueue's argument and local
    ppc, enq_data, node,
    \* consumer thread: position, Dequeue's locals, out parameter, result
    cpc, tail, next, deq_data, ret,
    \* test threads / lifetime
    pstopped, destroyed,
    \* history (not read by the program)
    enqLog,          \* one record per published node, in publication order
    dequeued,        \* values returned by successful Dequeue calls, in order
    nEnqCalls,       \* Enqueue calls started
    pRecycled,       \* the running Enqueue took its node from the cache
    pDeqAtStart,     \* Len(dequeued) when the running Enqueue was called
    pSteps, cSteps,  \* steps taken by the running call
    gncIter,         \* iterations of GetNodeFromCache's for (;;) in this call
    gncObs,          \* what the running GetNodeFromCache saw: m_first and
                     \* m_tailCopy on entry, m_tail at its reload (NULL: none)
    cPending,        \* published and undequeued items when Dequeue read m_next
    \* test harness (SPSCQueueTest.cpp)
    wpc,             \* position of each worker thread
    mpc,             \* position of the main thread in RunThreads
    g_mutex,         \* owner of g_mutex, or "none"
    s_runTestThreads, g_ready, s_stopTesting

heapVars == <<allocated, freed, m_next, m_data>>
queueVars == <<m_tail, m_head, m_first, m_tailCopy>>
prodVars == <<ppc, enq_data, node, pstopped>>
consVars == <<cpc, tail, next, deq_data, ret>>
prodHist == <<enqLog, nEnqCalls, pRecycled, pDeqAtStart, pSteps, gncIter, gncObs>>
consHist == <<dequeued, cSteps, cPending>>
queueSide == <<heapVars, queueVars, prodVars, consVars, destroyed, prodHist, consHist>>
harnessVars == <<wpc, mpc, g_mutex, s_runTestThreads, g_ready, s_stopTesting>>
vars == <<queueSide, harnessVars>>

enqueued == [i \in 1..Len(enqLog) |-> enqLog[i].val]

\* The queue copies payloads and never inspects them, so a run is determined
\* up to renaming by which payloads are equal: a call passes a payload used
\* before or the next unused one.
NextUnused ==
    1 + Cardinality({enqLog[i].val : i \in 1..Len(enqLog)})

\* ------------------------------------------------------------ constructor
TheDummy == 1

Workers == {"producer", "consumer"}

\* both workers are in their loops and main sleeps through the test time
HarnessRunning ==
    /\ wpc = [w \in Workers |-> "running"]
    /\ mpc = "sleep"
    /\ g_mutex = "none"
    /\ s_runTestThreads = 2
    /\ g_ready = TRUE
    /\ s_stopTesting = FALSE

NoObs == [first0 |-> NULL, tailCopy0 |-> NULL, reload |-> NULL, head0 |-> NULL]

\* mutant: the dummy node's next-pointer is left pointing at the node itself
Init_DummyLinked ==
    /\ allocated = {TheDummy}
    /\ freed = [n \in Nodes |-> 0]
    /\ m_next = [n \in Addr |-> IF n = TheDummy THEN TheDummy ELSE NULL]
    /\ m_data = [n \in Addr |-> Undef]
    /\ m_tail = TheDummy /\ m_head = TheDummy
    /\ m_first = TheDummy /\ m_tailCopy = TheDummy
    /\ ppc = "idle" /\ enq_data = Undef /\ node = NULL
    /\ cpc = "idle" /\ tail = NULL /\ next = NULL
    /\ deq_data = Undef /\ ret = "none"
    /\ pstopped = FALSE /\ destroyed = FALSE
    /\ enqLog = <<>> /\ dequeued = <<>> /\ nEnqCalls = 0
    /\ pRecycled = FALSE /\ pDeqAtStart = 0
    /\ pSteps = 0 /\ cSteps = 0 /\ gncIter = 0 /\ cPending = 0
    /\ gncObs = NoObs
    /\ HarnessRunning

Init ==
    /\ allocated = {TheDummy}
    /\ freed = [n \in Nodes |-> 0]
    /\ m_next = [n \in Addr |-> NULL]
    /\ m_data = [n \in Addr |-> Undef]
    /\ m_tail = TheDummy /\ m_head = TheDummy
    /\ m_first = TheDummy /\ m_tailCopy = TheDummy
    /\ ppc = "idle" /\ enq_data = Undef /\ node = NULL
    /\ cpc = "idle" /\ tail = NULL /\ next = NULL
    /\ deq_data = Undef /\ ret = "none"
    /\ pstopped = FALSE /\ destroyed = FALSE
    /\ enqLog = <<>> /\ dequeued = <<>> /\ nEnqCalls = 0
    /\ pRecycled = FALSE /\ pDeqAtStart = 0
    /\ pSteps = 0 /\ cSteps = 0 /\ gncIter = 0 /\ cPending = 0
    /\ gncObs = NoObs
    /\ HarnessRunning

\* --------------------------------------------------------------- producer
\* s_spscQueue.Enqueue(v): the call, and GetNodeFromCache's `node = nullptr`
EnqCall(v) ==
    /\ ~destroyed /\ ~pstopped /\ ppc = "idle" /\ nEnqCalls < MaxEnq
    /\ UNCHANGED harnessVars
    /\ v <= NextUnused
    /\ enq_data' = v /\ node' = NULL /\ ppc' = "gnc_check1"
    /\ nEnqCalls' = nEnqCalls + 1
    /\ pRecycled' = FALSE /\ pDeqAtStart' = Len(dequeued)
    /\ pSteps' = 0 /\ gncIter' = 1
    /\ gncObs' = [first0 |-> m_first, tailCopy0 |-> m_tailCopy, reload |-> NULL,
                  head0 |-> m_head]
    /\ UNCHANGED <<heapVars, queueVars, consVars, consHist, pstopped, destroyed, enqLog>>

\* if (m_first != m_tailCopy) { node = m_first; m_first = m_first->m_next; break; }
GncTake(from, hit, miss) ==
    /\ ~destroyed /\ ppc = from
    /\ UNCHANGED harnessVars
    /\ IF m_first # m_tailCopy
       THEN /\ node' = m_first
            /\ m_first' = m_next[m_first]
            /\ pRecycled' = TRUE
            /\ ppc' = hit
       ELSE /\ UNCHANGED <<node, m_first, pRecycled>>
            /\ ppc' = miss
    /\ pSteps' = pSteps + 1
    /\ UNCHANGED <<heapVars, m_tail, m_head, m_tailCopy, enq_data, pstopped,
                   consVars, consHist, destroyed, enqLog, nEnqCalls, pDeqAtStart, gncIter,
                   gncObs>>

GncCheck1 == GncTake("gnc_check1", "clear_next", "gnc_load_tail")

\* mutant: the snapshot is not refreshed
GncLoadTail_Stale ==
    /\ ~destroyed /\ ppc = "gnc_load_tail"
    /\ UNCHANGED harnessVars
    /\ gncObs' = [gncObs EXCEPT !.reload = m_tailCopy]
    /\ ppc' = "gnc_check2"
    /\ pSteps' = pSteps + 1
    /\ UNCHANGED <<heapVars, queueVars, enq_data, node, pstopped,
                   consVars, consHist, destroyed, enqLog, nEnqCalls, pRecycled,
                   pDeqAtStart, gncIter>>

\* mutant: the snapshot is taken from m_head instead of m_tail
GncLoadTail_Head ==
    /\ ~destroyed /\ ppc = "gnc_load_tail"
    /\ UNCHANGED harnessVars
    /\ m_tailCopy' = m_head
    /\ gncObs' = [gncObs EXCEPT !.reload = m_head]
    /\ ppc' = "gnc_check2"
    /\ pSteps' = pSteps + 1
    /\ UNCHANGED <<heapVars, m_tail, m_head, m_first, enq_data, node, pstopped,
                   consVars, consHist, destroyed, enqLog, nEnqCalls, pRecycled,
                   pDeqAtStart, gncIter>>

\* m_tailCopy = m_tail.load(std::memory_order_consume);
GncLoadTail ==
    /\ ~destroyed /\ ppc = "gnc_load_tail"
    /\ UNCHANGED harnessVars
    /\ m_tailCopy' = m_tail
    /\ gncObs' = [gncObs EXCEPT !.reload = m_tail]
    /\ ppc' = "gnc_check2"
    /\ pSteps' = pSteps + 1
    /\ UNCHANGED <<heapVars, m_tail, m_head, m_first, enq_data, node, pstopped,
                   consVars, consHist, destroyed, enqLog, nEnqCalls, pRecycled,
                   pDeqAtStart, gncIter>>

\* mutant: the reloaded snapshot is not compared, m_first is taken regardless
GncCheck2_NoCompare ==
    /\ ~destroyed /\ ppc = "gnc_check2"
    /\ UNCHANGED harnessVars
    /\ node' = m_first
    /\ m_first' = m_next[m_first]
    /\ pRecycled' = TRUE
    /\ ppc' = "clear_next"
    /\ pSteps' = pSteps + 1
    /\ UNCHANGED <<heapVars, m_tail, m_head, m_tailCopy, enq_data, pstopped,
                   consVars, consHist, destroyed, enqLog, nEnqCalls, pDeqAtStart, gncIter,
                   gncObs>>

\* mutant: a miss goes round the for (;;) again instead of leaving it
GncCheck2_Spin ==
    /\ ~destroyed /\ ppc = "gnc_check2"
    /\ UNCHANGED harnessVars
    /\ IF m_first # m_tailCopy
       THEN /\ node' = m_first
            /\ m_first' = m_next[m_first]
            /\ pRecycled' = TRUE
            /\ ppc' = "clear_next"
            /\ gncIter' = gncIter
       ELSE /\ UNCHANGED <<node, m_first, pRecycled>>
            /\ ppc' = "gnc_check1"
            /\ gncIter' = gncIter + 1
    /\ pSteps' = pSteps + 1
    /\ UNCHANGED <<heapVars, m_tail, m_head, m_tailCopy, enq_data, pstopped,
                   consVars, consHist, destroyed, enqLog, nEnqCalls, pDeqAtStart, gncObs>>

\* the second check; on a miss `break` leaves the loop with node == nullptr
GncCheck2 == GncTake("gnc_check2", "clear_next", "alloc")

\* mutant: the recycled node keeps the link of its previous use
EnqClearNext_Skip ==
    /\ ~destroyed /\ ppc = "clear_next"
    /\ UNCHANGED harnessVars
    /\ ppc' = "write_data"
    /\ pSteps' = pSteps + 1
    /\ UNCHANGED <<heapVars, queueVars, enq_data, node, pstopped,
                   consVars, consHist, destroyed, enqLog, nEnqCalls, pRecycled,
                   pDeqAtStart, gncIter, gncObs>>

\* node->m_next = nullptr;
EnqClearNext ==
    /\ ~destroyed /\ ppc = "clear_next"
    /\ UNCHANGED harnessVars
    /\ m_next' = [m_next EXCEPT ![node] = NULL]
    /\ ppc' = "write_data"
    /\ pSteps' = pSteps + 1
    /\ UNCHANGED <<allocated, freed, m_data, queueVars, enq_data, node, pstopped,
                   consVars, consHist, destroyed, enqLog, nEnqCalls, pRecycled,
                   pDeqAtStart, gncIter, gncObs>>

\* mutant: the recycled node keeps the payload of its previous use
EnqWriteData_Skip ==
    /\ ~destroyed /\ ppc = "write_data"
    /\ UNCHANGED harnessVars
    /\ ppc' = "publish"
    /\ pSteps' = pSteps + 1
    /\ UNCHANGED <<heapVars, queueVars, enq_data, node, pstopped,
                   consVars, consHist, destroyed, enqLog, nEnqCalls, pRecycled,
                   pDeqAtStart, gncIter, gncObs>>

\* node->m_data = data;
EnqWriteData ==
    /\ ~destroyed /\ ppc = "write_data"
    /\ UNCHANGED harnessVars
    /\ m_data' = [m_data EXCEPT ![node] = enq_data]
    /\ ppc' = "publish"
    /\ pSteps' = pSteps + 1
    /\ UNCHANGED <<allocated, freed, m_next, queueVars, enq_data, node, pstopped,
                   consVars, consHist, destroyed, enqLog, nEnqCalls, pRecycled,
                   pDeqAtStart, gncIter, gncObs>>

\* node = new Node(data);
EnqAlloc ==
    /\ ~destroyed /\ ppc = "alloc"
    /\ UNCHANGED harnessVars
    /\ \E n \in Nodes \ allocated :
          /\ \A k \in Nodes \ allocated : n <= k
          /\ allocated' = allocated \cup {n}
          /\ m_next' = [m_next EXCEPT ![n] = NULL]
          /\ m_data' = [m_data EXCEPT ![n] = enq_data]
          /\ node' = n
    /\ ppc' = "publish"
    /\ pSteps' = pSteps + 1
    /\ UNCHANGED <<freed, queueVars, enq_data, pstopped, consVars, consHist,
                   destroyed, enqLog, nEnqCalls, pRecycled, pDeqAtStart, gncIter, gncObs>>

\* mutant: the failed call leaves m_head null
EnqAllocFail_LosesHead ==
    /\ ~destroyed /\ ppc = "alloc"
    /\ UNCHANGED harnessVars
    /\ m_head' = NULL
    /\ ppc' = "idle"
    /\ enq_data' = Undef /\ node' = NULL
    /\ pRecycled' = FALSE /\ pDeqAtStart' = 0 /\ gncObs' = NoObs
    /\ pSteps' = pSteps + 1
    /\ UNCHANGED <<heapVars, m_tail, m_first, m_tailCopy, pstopped,
                   consVars, consHist, destroyed, enqLog, nEnqCalls, gncIter>>

\* node = new Node(data);  throws std::bad_alloc: the exception leaves Enqueue
\* before anything is stored, and the caller goes on using the queue
EnqAllocFail ==
    /\ ~destroyed /\ ppc = "alloc"
    /\ UNCHANGED harnessVars
    /\ ppc' = "idle"
    /\ enq_data' = Undef /\ node' = NULL
    /\ pRecycled' = FALSE /\ pDeqAtStart' = 0 /\ gncObs' = NoObs
    /\ pSteps' = pSteps + 1
    /\ UNCHANGED <<heapVars, queueVars, pstopped,
                   consVars, consHist, destroyed, enqLog, nEnqCalls, gncIter>>

\* mutant: the store goes to the new node's own next-pointer
EnqPublish_ToNode ==
    /\ ~destroyed /\ ppc = "publish"
    /\ UNCHANGED harnessVars
    /\ m_next' = [m_next EXCEPT ![node] = node]
    /\ enqLog' = Append(enqLog, [val |-> enq_data, node |-> node,
                                 recycled |-> pRecycled, deqAtStart |-> pDeqAtStart,
                                 call |-> nEnqCalls])
    /\ ppc' = "set_head"
    /\ pSteps' = pSteps + 1
    /\ UNCHANGED <<allocated, freed, m_data, queueVars, enq_data, node, pstopped,
                   consVars, consHist, destroyed, nEnqCalls, pRecycled,
                   pDeqAtStart, gncIter, gncObs>>

\* m_head->m_next.store(node, std::memory_order_release);
EnqPublish ==
    /\ ~destroyed /\ ppc = "publish"
    /\ UNCHANGED harnessVars
    /\ m_next' = [m_next EXCEPT ![m_head] = node]
    /\ enqLog' = Append(enqLog, [val |-> enq_data, node |-> node,
                                 recycled |-> pRecycled, deqAtStart |-> pDeqAtStart,
                                 call |-> nEnqCalls])
    /\ ppc' = "set_head"
    /\ pSteps' = pSteps + 1
    /\ UNCHANGED <<allocated, freed, m_data, queueVars, enq_data, node, pstopped,
                   consVars, consHist, destroyed, nEnqCalls, pRecycled,
                   pDeqAtStart, gncIter, gncObs>>

\* mutant: m_head is not advanced
EnqSetHead_Forget ==
    /\ ~destroyed /\ ppc = "set_head"
    /\ UNCHANGED harnessVars
    /\ ppc' = "idle"
    /\ enq_data' = Undef /\ node' = NULL
    /\ pRecycled' = FALSE /\ pDeqAtStart' = 0 /\ gncObs' = NoObs
    /\ pSteps' = pSteps + 1
    /\ UNCHANGED <<heapVars, queueVars, pstopped,
                   consVars, consHist, destroyed, enqLog, nEnqCalls, gncIter>>

\* m_head = node;  and the return, which ends the argument and the local
EnqSetHead ==
    /\ ~destroyed /\ ppc = "set_head"
    /\ UNCHANGED harnessVars
    /\ m_head' = node
    /\ ppc' = "idle"
    /\ enq_data' = Undef /\ node' = NULL
    /\ pRecycled' = FALSE /\ pDeqAtStart' = 0 /\ gncObs' = NoObs
    /\ pSteps' = pSteps + 1
    /\ UNCHANGED <<heapVars, m_tail, m_first, m_tailCopy, pstopped,
                   consVars, consHist, destroyed, enqLog, nEnqCalls, gncIter>>

\* the producer thread leaves its loop (s_stopTesting) between two calls
ProducerStop ==
    /\ ~destroyed /\ ppc = "idle" /\ ~pstopped
    /\ UNCHANGED harnessVars
    /\ pstopped' = TRUE
    /\ UNCHANGED <<heapVars, queueVars, ppc, enq_data, node, consVars, consHist,
                   destroyed, prodHist>>

Producer ==
    \/ \E v \in Values : EnqCall(v)
    \/ GncCheck1 \/ GncLoadTail \/ GncCheck2
    \/ EnqClearNext \/ EnqWriteData \/ EnqAlloc
    \/ EnqPublish \/ EnqSetHead

\* --------------------------------------------------------------- consumer
\* the call, and  Node* tail = m_tail.load(std::memory_order_relaxed);
DeqLoadTail ==
    /\ ~destroyed /\ cpc = "idle"
    /\ UNCHANGED harnessVars
    /\ tail' = m_tail /\ next' = NULL
    /\ ret' = "none"
    /\ cpc' = "load_next"
    /\ cSteps' = 1 /\ cPending' = 0
    /\ UNCHANGED <<heapVars, queueVars, prodVars, prodHist, destroyed,
                   deq_data, dequeued>>

\* mutant: the out parameter is reset when the queue is found empty
DeqLoadNext_ClobberOut ==
    /\ ~destroyed /\ cpc = "load_next"
    /\ UNCHANGED harnessVars
    /\ cPending' = Len(enqLog) - Len(dequeued)
    /\ IF m_next[tail] # NULL
       THEN /\ next' = m_next[tail] /\ tail' = tail
            /\ cpc' = "move_data" /\ ret' = ret /\ deq_data' = deq_data
       ELSE /\ next' = NULL /\ tail' = NULL
            /\ cpc' = "idle" /\ ret' = "false" /\ deq_data' = Undef
    /\ cSteps' = cSteps + 1
    /\ UNCHANGED <<heapVars, queueVars, prodVars, prodHist, destroyed, dequeued>>

\* Node* next = tail->m_next.load(consume); if (next != nullptr) ... return false;
DeqLoadNext ==
    /\ ~destroyed /\ cpc = "load_next"
    /\ UNCHANGED harnessVars
    /\ cPending' = Len(enqLog) - Len(dequeued)
    /\ IF m_next[tail] # NULL
       THEN /\ next' = m_next[tail] /\ tail' = tail
            /\ cpc' = "move_data" /\ ret' = ret
       ELSE /\ next' = NULL /\ tail' = NULL
            /\ cpc' = "idle" /\ ret' = "false"
    /\ cSteps' = cSteps + 1
    /\ UNCHANGED <<heapVars, queueVars, prodVars, prodHist, destroyed,
                   deq_data, dequeued>>

\* mutant: the payload is read from the node at tail, not from its successor
DeqMoveData_FromTail ==
    /\ ~destroyed /\ cpc = "move_data"
    /\ UNCHANGED harnessVars
    /\ deq_data' = m_data[tail]
    /\ cpc' = "store_tail"
    /\ cSteps' = cSteps + 1
    /\ UNCHANGED <<heapVars, queueVars, prodVars, prodHist, destroyed,
                   tail, next, ret, dequeued, cPending>>

\* data = std::move(next->m_data);
DeqMoveData ==
    /\ ~destroyed /\ cpc = "move_data"
    /\ UNCHANGED harnessVars
    /\ deq_data' = m_data[next]
    /\ cpc' = "store_tail"
    /\ cSteps' = cSteps + 1
    /\ UNCHANGED <<heapVars, queueVars, prodVars, prodHist, destroyed,
                   tail, next, ret, dequeued, cPending>>

\* mutant: the consumer deletes the node it has moved past
DeqStoreTail_Delete ==
    /\ ~destroyed /\ cpc = "store_tail"
    /\ UNCHANGED harnessVars
    /\ m_tail' = next
    /\ freed' = [freed EXCEPT ![tail] = @ + 1]
    /\ ret' = "true"
    /\ dequeued' = Append(dequeued, deq_data)
    /\ cpc' = "idle"
    /\ tail' = NULL /\ next' = NULL
    /\ cSteps' = cSteps + 1
    /\ UNCHANGED <<allocated, m_next, m_data, m_head, m_first, m_tailCopy, prodVars,
                   prodHist, destroyed, deq_data, cPending>>

\* mutant: the consumer also unlinks the node it has moved past
DeqStoreTail_Unlink ==
    /\ ~destroyed /\ cpc = "store_tail"
    /\ UNCHANGED harnessVars
    /\ m_tail' = next
    /\ m_next' = [m_next EXCEPT ![tail] = NULL]
    /\ ret' = "true"
    /\ dequeued' = Append(dequeued, deq_data)
    /\ cpc' = "idle"
    /\ tail' = NULL /\ next' = NULL
    /\ cSteps' = cSteps + 1
    /\ UNCHANGED <<allocated, freed, m_data, m_head, m_first, m_tailCopy, prodVars,
                   prodHist, destroyed, deq_data, cPending>>

\* m_tail.store(next, std::memory_order_release); return true;  (locals end)
DeqStoreTail ==
    /\ ~destroyed /\ cpc = "store_tail"
    /\ UNCHANGED harnessVars
    /\ m_tail' = next
    /\ ret' = "true"
    /\ dequeued' = Append(dequeued, deq_data)
    /\ cpc' = "idle"
    /\ tail' = NULL /\ next' = NULL
    /\ cSteps' = cSteps + 1
    /\ UNCHANGED <<heapVars, m_head, m_first, m_tailCopy, prodVars, prodHist,
                   destroyed, deq_data, cPending>>

Consumer == DeqLoadTail \/ DeqLoadNext \/ DeqMoveData \/ DeqStoreTail

\* ------------------------------------------------------------- destructor
\* do { next = cur->m_next; delete cur; cur = next; } while (cur != nullptr);
\* the number of times the walk from cur deletes node n (fuel cuts a cyclic walk)
RECURSIVE Deletes(_, _, _)
Deletes(cur, n, fuel) ==
    IF fuel = 0 THEN 0
    ELSE (IF cur = n THEN 1 ELSE 0)
         + (IF m_next[cur] = NULL THEN 0 ELSE Deletes(m_next[cur], n, fuel - 1))

\* mutant: the walk starts at m_tail
Destruct_FromTail ==
    /\ ~destroyed /\ ppc = "idle" /\ cpc = "idle"
    /\ UNCHANGED harnessVars
    /\ freed' = [n \in Nodes |-> freed[n] + Deletes(m_tail, n, 2 * MaxNodes)]
    /\ destroyed' = TRUE
    /\ UNCHANGED <<allocated, m_next, m_data, queueVars, prodVars, consVars,
                   prodHist, consHist>>

Destruct ==
    /\ ~destroyed /\ ppc = "idle" /\ cpc = "idle"
    /\ UNCHANGED harnessVars
    /\ freed' = [n \in Nodes |-> freed[n] + Deletes(m_first, n, 2 * MaxNodes)]
    /\ destroyed' = TRUE
    /\ UNCHANGED <<allocated, m_next, m_data, queueVars, prodVars, consVars,
                   prodHist, consHist>>

\* ------------------------------------------------------------------ specs
NextRun == Producer \/ ProducerStop \/ Consumer

Next == NextRun \/ Destruct

Spec == Init /\ [][Next]_vars

\* both threads keep being scheduled while the queue is alive
LiveSpec == Init /\ [][NextRun]_vars /\ WF_vars(Producer) /\ WF_vars(Consumer)

\* the same program where operator new may fail and the caller catches it
NextFail == Next \/ EnqAllocFail

FailSpec == Init /\ [][NextFail]_vars

\* ------------------------------------------------------- test start barrier
\* static initialisation and entry of RunThreads: the queue is constructed,
\* no thread exists yet
BarrierInit ==
    /\ allocated = {TheDummy}
    /\ freed = [n \in Nodes |-> 0]
    /\ m_next = [n \in Addr |-> NULL]
    /\ m_data = [n \in Addr |-> Undef]
    /\ m_tail = TheDummy /\ m_head = TheDummy
    /\ m_first = TheDummy /\ m_tailCopy = TheDummy
    /\ ppc = "idle" /\ enq_data = Undef /\ node = NULL
    /\ cpc = "idle" /\ tail = NULL /\ next = NULL
    /\ deq_data = Undef /\ ret = "none"
    /\ pstopped = FALSE /\ destroyed = FALSE
    /\ enqLog = <<>> /\ dequeued = <<>> /\ nEnqCalls = 0
    /\ pRecycled = FALSE /\ pDeqAtStart = 0
    /\ pSteps = 0 /\ cSteps = 0 /\ gncIter = 0 /\ cPending = 0
    /\ gncObs = NoObs
    /\ wpc = [w \in Workers |-> "unborn"]
    /\ mpc = "spawn_producer"
    /\ g_mutex = "none"
    /\ s_runTestThreads = 0
    /\ g_ready = FALSE
    /\ s_stopTesting = FALSE

\* std::thread producer(...);  std::thread consumer(...);
Spawn(w, at, then) ==
    /\ mpc = at
    /\ wpc' = [wpc EXCEPT ![w] = "register"]
    /\ mpc' = then
    /\ UNCHANGED <<queueSide, g_mutex, s_runTestThreads, g_ready, s_stopTesting>>

SpawnProducer == Spawn("producer", "spawn_producer", "spawn_consumer")

SpawnConsumer == Spawn("consumer", "spawn_consumer", "poll")

\* while (s_runTestThreads != 2) std::this_thread::sleep_for(10ms);
PollRegistered ==
    /\ mpc = "poll"
    /\ s_runTestThreads = 2
    /\ mpc' = "set_ready"
    /\ UNCHANGED <<queueSide, wpc, g_mutex, s_runTestThreads, g_ready, s_stopTesting>>

\* g_ready = true;   (g_mutex is not held)
SetReady ==
    /\ mpc = "set_ready"
    /\ g_ready' = TRUE
    /\ mpc' = "notify"
    /\ UNCHANGED <<queueSide, wpc, g_mutex, s_runTestThreads, s_stopTesting>>

\* g_cv.notify_all();  wakes the threads blocked on g_cv at this moment
NotifyAll ==
    /\ mpc = "notify"
    /\ wpc' = [w \in Workers |-> IF wpc[w] = "blocked" THEN "relock" ELSE wpc[w]]
    /\ mpc' = "sleep"
    /\ UNCHANGED <<queueSide, g_mutex, s_runTestThreads, g_ready, s_stopTesting>>

\* std::this_thread::sleep_for(20s);
SleepDone ==
    /\ mpc = "sleep"
    /\ mpc' = "stop"
    /\ UNCHANGED <<queueSide, wpc, g_mutex, s_runTestThreads, g_ready, s_stopTesting>>

\* s_stopTesting.store(true, std::memory_order_relaxed);
StopTesting ==
    /\ mpc = "stop"
    /\ s_stopTesting' = TRUE
    /\ mpc' = "join_producer"
    /\ UNCHANGED <<queueSide, wpc, g_mutex, s_runTestThreads, g_ready>>

\* producer.join();  consumer.join();
Join(w, at, then) ==
    /\ mpc = at
    /\ wpc[w] = "done"
    /\ mpc' = then
    /\ UNCHANGED <<queueSide, wpc, g_mutex, s_runTestThreads, g_ready, s_stopTesting>>

JoinProducer == Join("producer", "join_producer", "join_consumer")

JoinConsumer == Join("consumer", "join_consumer", "joined")

Main ==
    \/ SpawnProducer \/ SpawnConsumer \/ PollRegistered \/ SetReady
    \/ NotifyAll \/ SleepDone \/ StopTesting \/ JoinProducer \/ JoinConsumer

\* std::atomic_fetch_add(&s_runTestThreads, 1);
Register(w) ==
    /\ wpc[w] = "register"
    /\ s_runTestThreads' = s_runTestThreads + 1
    /\ wpc' = [wpc EXCEPT ![w] = "lock"]
    /\ UNCHANGED <<queueSide, mpc, g_mutex, g_ready, s_stopTesting>>

\* std::unique_lock<std::mutex> lock(g_mutex);  and the re-lock inside
\* condition_variable::wait after a wake-up
WaitLock(w) ==
    /\ wpc[w] \in {"lock", "relock"}
    /\ g_mutex = "none"
    /\ g_mutex' = w
    /\ wpc' = [wpc EXCEPT ![w] = "check"]
    /\ UNCHANGED <<queueSide, mpc, s_runTestThreads, g_ready, s_stopTesting>>

\* g_cv.wait(lock, pred) is  while (!pred()) wait(lock);  this is pred()
WaitCheck(w) ==
    /\ wpc[w] = "check"
    /\ wpc' = [wpc EXCEPT ![w] = IF g_ready THEN "unlock" ELSE "block"]
    /\ UNCHANGED <<queueSide, mpc, g_mutex, s_runTestThreads, g_ready, s_stopTesting>>

\* wait(lock): releases g_mutex and blocks on g_cv, atomically
WaitBlock(w) ==
    /\ wpc[w] = "block"
    /\ g_mutex' = "none"
    /\ wpc' = [wpc EXCEPT ![w] = "blocked"]
    /\ UNCHANGED <<queueSide, mpc, s_runTestThreads, g_ready, s_stopTesting>>

\* return from wait(): lock's destructor releases g_mutex
WaitReturn(w) ==
    /\ wpc[w] = "unlock"
    /\ g_mutex' = "none"
    /\ wpc' = [wpc EXCEPT ![w] = "running"]
    /\ UNCHANGED <<queueSide, mpc, s_runTestThreads, g_ready, s_stopTesting>>

\* while (!s_stopTesting.load(std::memory_order_relaxed)) { ... }  the thread
\* leaves its loop and its function
LoopExit(w) ==
    /\ wpc[w] = "running"
    /\ s_stopTesting
    /\ wpc' = [wpc EXCEPT ![w] = "done"]
    /\ UNCHANGED <<queueSide, mpc, g_mutex, s_runTestThreads, g_ready, s_stopTesting>>

Worker(w) ==
    \/ Register(w) \/ WaitLock(w) \/ WaitCheck(w) \/ WaitBlock(w)
    \/ WaitReturn(w) \/ LoopExit(w)

\* condition_variable::wait may return without a notification
SpuriousWake(w) ==
    /\ wpc[w] = "blocked"
    /\ wpc' = [wpc EXCEPT ![w] = "relock"]
    /\ UNCHANGED <<queueSide, mpc, g_mutex, s_runTestThreads, g_ready, s_stopTesting>>

BarrierNext ==
    \/ Main
    \/ \E w \in Workers : Worker(w)
    \/ \E w \in Workers : SpuriousWake(w)

\* every thread that can run keeps running; a spurious wake-up may never come
BarrierSpec ==
    /\ BarrierInit /\ [][BarrierNext]_vars
    /\ WF_vars(Main)
    /\ \A w \in Workers : WF_vars(Worker(w))

\* ---------------------------------------------------------------- helpers
\* the nodes reached from n along next-pointers, n included
RECURSIVE ReachFrom(_, _)
ReachFrom(n, fuel) ==
    IF n = NULL \/ fuel = 0 THEN {}
    ELSE {n} \cup ReachFrom(m_next[n], fuel - 1)

ConsumerSide == ReachFrom(m_tail, MaxNodes)

Min(a, b) == IF a <= b THEN a ELSE b

\* the positions one Enqueue call can pass through on its longest path, and
\* those of one Dequeue call
EnqPath == <<"gnc_check1", "gnc_load_tail", "gnc_check2", "clear_next",
             "write_data", "publish", "set_head">>
DeqPath == <<"load_tail", "load_next", "move_data", "store_tail">>

\* ------------------------------------------------------------------ claims

\* C1: the values returned by successful dequeues are, at every moment, a
\* prefix of the values enqueued (published), in the same order.
C1_FifoPrefix ==
    /\ Len(dequeued) <= Len(enqueued)
    /\ \A i \in 1..Len(dequeued) : dequeued[i] = enqueued[i]

C1_Witness ==
    /\ Len(dequeued) >= 3
    /\ dequeued[1] # dequeued[2]
    /\ ppc = "write_data" /\ cpc = "idle"

\* C2: once the producer has stopped after enqueuing K items (K the length
\* of enqLog, which a stopped producer no longer changes), the consumer
\* eventually has exactly K successful dequeues and from then on no Dequeue
\* succeeds any more.
C2_Conservation ==
    pstopped ~> [](Len(dequeued) = Len(enqLog) /\ ret # "true")

C2_Witness ==
    /\ pstopped /\ Len(enqLog) >= 2
    /\ Len(dequeued) = Len(enqLog)
    /\ cpc = "idle" /\ ret = "false"

\* C3: from the moment the producer has its node (taken from the cache or
\* new) until it publishes it, that node is neither the node at m_tail nor
\* linked after it, and it is not a node the consumer holds in Dequeue's
\* locals.
C3_NoSharedNode ==
    ppc \in {"clear_next", "write_data", "publish"} =>
        /\ node \notin ConsumerSide
        /\ cpc # "idle" => node # tail
        /\ cpc \in {"move_data", "store_tail"} => node # next

C3_Witness ==
    /\ ppc = "write_data" /\ cpc = "move_data"
    /\ node # TheDummy

\* C4: Dequeue returns false only if no published item was undequeued when
\* it read tail's next-pointer, and takes the success path with the oldest
\* undequeued value whenever there was one.
C4_EmptyAtCheck ==
    /\ (cpc = "idle" /\ ret = "false") => cPending = 0
    /\ cpc \in {"move_data", "store_tail"} => cPending > 0
    /\ cpc = "store_tail" => deq_data = enqueued[Len(dequeued) + 1]
    /\ (cpc = "idle" /\ ret = "true") =>
           cPending > 0 /\ deq_data = enqueued[Len(dequeued)]

C4_Witness ==
    /\ cpc = "idle" /\ ret = "false"
    /\ Len(enqLog) >= 2 /\ Len(dequeued) = 1
    /\ Len(enqLog) > Len(dequeued)

\* C5: the steps of a Dequeue that finds the queue empty change no cursor,
\* no next-pointer, no payload and not the caller's out value.
C5_EmptyDequeueFrame ==
    [][ /\ (cpc = "load_next" /\ cpc' = "idle") => ret' = "false"
        /\ (cpc \in {"idle", "load_next"} /\ cpc' \in {"load_next", "idle"}
               /\ cpc' # cpc) =>
              UNCHANGED <<m_tail, m_head, m_first, m_tailCopy, m_next, m_data,
                          deq_data, allocated, freed>> ]_vars

C5_Witness ==
    /\ cpc = "idle" /\ ret = "false"
    /\ Len(dequeued) >= 1 /\ deq_data # Undef
    /\ ppc = "publish"

\* C6: as long as no Enqueue has been called the four cursors all point to
\* the dummy node, whose next-pointer is null, and every Dequeue that has
\* returned (the first one included) returned false.
C6_FreshQueueEmpty ==
    nEnqCalls = 0 =>
        /\ allocated = {TheDummy}
        /\ m_tail = TheDummy /\ m_head = TheDummy
        /\ m_first = TheDummy /\ m_tailCopy = TheDummy
        /\ m_next[TheDummy] = NULL
        /\ ret \in {"none", "false"}
        /\ dequeued = <<>>

C6_Witness == nEnqCalls = 0 /\ cpc = "idle" /\ ret = "false"

\* C7: when all of the first M values were dequeued before the (M+1)-th
\* Enqueue was called, that Enqueue stores its value in a recycled node and
\* the values of the next M enqueues are dequeued unchanged and in order; if
\* moreover the first batch was enqueued into fresh nodes (no dequeue had
\* made a node reusable yet), all M enqueues of the second batch use nodes
\* recycled from the first batch.
BatchRun(M) ==
    /\ Len(enqLog) > M
    /\ enqLog[M + 1].deqAtStart = M

FirstBatchFresh(M) == \A i \in 1..M : ~enqLog[i].recycled

FirstBatchNodes(M) == {TheDummy} \cup {enqLog[i].node : i \in 1..M}

C7_NodeReuse ==
    \A M \in 1..MaxEnq :
        BatchRun(M) =>
            /\ enqLog[M + 1].recycled
            /\ \A i \in (M + 1)..Min(2 * M, Len(dequeued)) :
                   dequeued[i] = enqLog[i].val
            /\ FirstBatchFresh(M) =>
                   \A i \in (M + 1)..Min(2 * M, Len(enqLog)) :
                       /\ enqLog[i].recycled
                       /\ enqLog[i].node \in FirstBatchNodes(M)

C7_Witness ==
    /\ BatchRun(2) /\ FirstBatchFresh(2)
    /\ Len(dequeued) = 4
    /\ enqLog[4].node = enqLog[1].node
    /\ enqLog[4].val # enqLog[1].val

\* C8: a call never takes more steps than its longest path has positions,
\* GetNodeFromCache's loop body runs at most once per call, and a thread
\* inside a call can always take its next step, whatever the other thread
\* is doing.
C8_WaitFree ==
    /\ pSteps <= Len(EnqPath)
    /\ cSteps <= Len(DeqPath)
    /\ gncIter <= 1
    /\ (~destroyed /\ ppc # "idle") => ENABLED Producer
    /\ (~destroyed /\ cpc # "idle") => ENABLED Consumer

C8_Witness ==
    /\ pSteps = Len(EnqPath) /\ ppc = "idle"
    /\ cSteps = Len(DeqPath) /\ cpc = "idle"

\* C9: after the destructor every node the queue ever allocated has been
\* deleted exactly once (and nothing else has been deleted).
C9_DestructReleasesAll ==
    destroyed => \A n \in Nodes : freed[n] = (IF n \in allocated THEN 1 ELSE 0)

C9_Witness ==
    /\ destroyed
    /\ Cardinality(allocated) >= 3
    /\ m_first # m_tail /\ m_tail # m_head
    /\ Len(dequeued) < Len(enqLog)

\* C10: no step before the destructor deletes a node or forgets one: the
\* set of nodes the queue holds only grows.
C10_NeverReleases ==
    [][ ~destroyed' => (freed' = freed /\ allocated \subseteq allocated') ]_vars

C10_Witness ==
    /\ ~destroyed
    /\ Cardinality(allocated) >= 3
    /\ m_first # m_tailCopy
    /\ \E i \in 1..Len(enqLog) : enqLog[i].recycled

\* C11 (as claimed): in every reachable state m_head is reached from m_tail
\* along next-pointers, i.e. tail is never ahead of head.
C11_TailNeverAheadOfHead == m_head \in ReachFrom(m_tail, MaxNodes)

\* C11 (amended): tail is never ahead of the last published node.  Outside the
\* window between Enqueue's store into the old head's next-pointer and its
\* update of m_head that node is m_head; inside the window it is the node just
\* stored, which is m_head's successor, and tail is at most that one link
\* ahead of head.
C11_TailNotAheadOfPublished ==
    /\ ppc # "set_head" => m_head \in ReachFrom(m_tail, MaxNodes)
    /\ ppc = "set_head" =>
          /\ m_next[m_head] = node
          /\ node \in ReachFrom(m_tail, MaxNodes)
          /\ m_head \notin ReachFrom(m_tail, MaxNodes) => m_tail = node

C11_Witness ==
    /\ ppc = "set_head" /\ m_tail = node
    /\ m_head \notin ReachFrom(m_tail, MaxNodes)
    /\ Len(dequeued) >= 2

\* C12: in every reachable state m_tailCopy is reached from m_first and
\* m_tail is reached from m_tailCopy along next-pointers: first is at or
\* before tailCopy, and tailCopy is at or before the shared tail.
C12_CacheWindowOrdered ==
    /\ m_tailCopy \in ReachFrom(m_first, MaxNodes)
    /\ m_tail \in ReachFrom(m_tailCopy, MaxNodes)

C12_Witness ==
    /\ m_first # m_tailCopy /\ m_tailCopy # m_tail /\ m_tail # m_head
    /\ m_first # TheDummy
    /\ ppc = "set_head" /\ cpc = "load_next"

\* the nodes visited from n along next-pointers, in order (fuel cuts a cycle)
RECURSIVE Walk(_, _)
Walk(n, fuel) ==
    IF n = NULL \/ fuel = 0 THEN <<>>
    ELSE <<n>> \o Walk(m_next[n], fuel - 1)

\* C13: whenever the producer is not inside Enqueue, the walk from m_first
\* along next-pointers visits no node twice, passes m_tail, ends at m_head
\* whose next-pointer is null, and visits every node the queue holds; there
\* is always at least one node.
C13_ListWellFormed ==
    ppc = "idle" =>
        LET w == Walk(m_first, 2 * MaxNodes) IN
        /\ Len(w) >= 1
        /\ \A i, j \in 1..Len(w) : w[i] = w[j] => i = j
        /\ \E i \in 1..Len(w) : w[i] = m_tail
        /\ w[Len(w)] = m_head
        /\ m_next[m_head] = NULL
        /\ {w[i] : i \in 1..Len(w)} = allocated

C13_Witness ==
    /\ ppc = "idle" /\ cpc = "move_data"
    /\ Len(enqLog) = MaxEnq
    /\ Cardinality(allocated) >= 3
    /\ m_first # TheDummy /\ m_first # m_tail /\ m_tail # m_head
    /\ enqLog[Len(enqLog)].recycled

\* C14: a node is complete before it is published and stays so until it is
\* dequeued: when Enqueue is about to store the node's address, the node holds
\* the value and a null next-pointer; every published, undequeued node holds
\* its enqueued value and links to the node published after it, or to null if
\* it is the last; and the node the consumer found behind m_tail is the oldest
\* such node.
C14_PublishedNodeComplete ==
    /\ ppc = "publish" => (m_data[node] = enq_data /\ m_next[node] = NULL)
    /\ \A i \in (Len(dequeued) + 1)..Len(enqLog) :
          /\ m_data[enqLog[i].node] = enqLog[i].val
          /\ m_next[enqLog[i].node] =
                 (IF i < Len(enqLog) THEN enqLog[i + 1].node ELSE NULL)
    /\ cpc \in {"move_data", "store_tail"} =>
          next = enqLog[Len(dequeued) + 1].node

C14_Witness ==
    /\ cpc = "move_data" /\ ppc = "set_head"
    /\ enqLog[Len(dequeued) + 1].recycled
    /\ next # TheDummy
    /\ m_next[next] = NULL

\* C15: GetNodeFromCache has returned null (Enqueue is about to allocate)
\* exactly when m_first equalled m_tailCopy on entry and equalled m_tail at the
\* reload, and m_first is then where it was; in every other case it has
\* returned the node that was at m_first on entry, and m_first has advanced to
\* that node's successor.
GncFoundNothing ==
    /\ gncObs.first0 = gncObs.tailCopy0
    /\ gncObs.reload = gncObs.first0

C15_GetNodeResult ==
    /\ ppc = "alloc" =>
          /\ GncFoundNothing
          /\ node = NULL
          /\ m_first = gncObs.first0
    /\ ppc = "clear_next" =>
          /\ ~GncFoundNothing
          /\ node = gncObs.first0
          /\ m_first = m_next[gncObs.first0]
          /\ m_first # gncObs.first0

C15_Witness ==
    /\ ppc = "alloc"
    /\ \E i \in 1..Len(enqLog) : enqLog[i].recycled
    /\ gncObs.first0 # TheDummy
    /\ cpc = "store_tail"

\* C16: single-writer discipline.  No step of Dequeue writes m_head, m_first,
\* m_tailCopy or any node's m_next (of the shared cursors it writes m_tail
\* alone), and no step of Enqueue, GetNodeFromCache included, writes m_tail.
C16_SingleWriter ==
    [][ /\ Consumer => UNCHANGED <<m_head, m_first, m_tailCopy, m_next>>
        /\ Producer => UNCHANGED m_tail ]_vars

C16_Witness ==
    /\ cpc = "idle" /\ ret = "true"
    /\ Len(dequeued) >= 2
    /\ ppc = "set_head"
    /\ m_tail # m_head
    /\ m_first # TheDummy

\* the Enqueue calls that ended in a failed allocation: started, not
\* published, and no longer running
NotYetPublished ==
    {"gnc_check1", "gnc_load_tail", "gnc_check2", "clear_next", "write_data",
     "alloc", "publish"}

nFailed ==
    nEnqCalls - Len(enqLog) - (IF ppc \in NotYetPublished THEN 1 ELSE 0)

\* the producer steps of a call that runs into the allocation: the entry, the
\* two failed comparisons with the reload between them, and the throw
OnFailingPath ==
    /\ Producer \/ EnqAllocFail
    /\ \/ ppc' \in {"gnc_check1", "gnc_load_tail", "gnc_check2", "alloc"}
       \/ ppc = "alloc" /\ ppc' = "idle"

\* C17: a failed allocation inside Enqueue does not corrupt the queue.  No
\* step of a call that reaches the allocation and fails writes m_head,
\* m_first, m_tail, a next-pointer, a payload or the published sequence (it
\* may refresh m_tailCopy), so at the throw m_head and m_first are where they
\* were on entry; and after any number of failures the list is well formed
\* between calls, the undequeued nodes hold their values in order, and the
\* values dequeued are a prefix of the values published.
C17_AllocFailureHarmless ==
    /\ [][ OnFailingPath =>
              UNCHANGED <<m_head, m_first, m_tail, m_next, m_data, allocated,
                          freed, enqLog, dequeued>> ]_vars
    /\ [](ppc = "alloc" => m_head = gncObs.head0 /\ m_first = gncObs.first0)
    /\ [](nFailed > 0 =>
            /\ Len(dequeued) <= Len(enqLog)
            /\ \A i \in 1..Len(dequeued) : dequeued[i] = enqLog[i].val
            /\ \A i \in (Len(dequeued) + 1)..Len(enqLog) :
                  /\ m_data[enqLog[i].node] = enqLog[i].val
                  /\ m_next[enqLog[i].node] =
                        (IF i < Len(enqLog) THEN enqLog[i + 1].node ELSE NULL)
            /\ ppc = "idle" =>
                  LET w == Walk(m_first, 2 * MaxNodes) IN
                  /\ Len(w) >= 1
                  /\ \A i, j \in 1..Len(w) : w[i] = w[j] => i = j
                  /\ \E i \in 1..Len(w) : w[i] = m_tail
                  /\ w[Len(w)] = m_head
                  /\ m_next[m_head] = NULL
                  /\ {w[i] : i \in 1..Len(w)} = allocated)

\* the second call failed, and the items published by the calls after it
\* have been dequeued behind the first
C17_Witness ==
    /\ nFailed >= 1
    /\ Len(dequeued) >= 3
    /\ enqLog[2].call = 3
    /\ enqLog[1].val # enqLog[2].val
    /\ ppc = "idle"

\* the largest value reached so far by (Enqueue calls started) minus
\* (successful Dequeue calls completed): that difference grows only when a
\* call starts, and every call started is either published or still running
maxOutstanding ==
    LET S == {0}
             \cup {enqLog[i].call - enqLog[i].deqAtStart : i \in 1..Len(enqLog)}
             \cup (IF ppc \in NotYetPublished THEN {nEnqCalls - pDeqAtStart} ELSE {})
    IN  CHOOSE m \in S : \A x \in S : x <= m

\* C18: memory bound.  Enqueue is about to allocate only when no node lies
\* behind m_tail, and at every moment the queue holds at most one node more
\* than the largest number of outstanding items reached so far; a strictly
\* alternating run never holds more than two nodes.
C18_MemoryBound ==
    /\ ppc = "alloc" => m_first = m_tailCopy /\ gncObs.reload = m_first
    /\ Cardinality(allocated) <= 1 + maxOutstanding

C18_Witness ==
    /\ maxOutstanding = 1
    /\ Len(dequeued) = MaxEnq
    /\ Cardinality(allocated) = 2
    /\ enqLog[MaxEnq].recycled

Notified == mpc \in {"sleep", "stop", "join_producer", "join_consumer", "joined"}

ReturnedFromWait(w) == wpc[w] \in {"running", "done"}

\* C19: start barrier of the test.  No worker is past wait() before main has
\* set g_ready; once main has set g_ready and called notify_all, every worker
\* eventually returns from wait(); and RunThreads eventually joins both.
C19_StartBarrier ==
    /\ [](\A w \in Workers : wpc[w] \in {"unlock", "running", "done"} => g_ready)
    /\ (Notified ~> \A w \in Workers : ReturnedFromWait(w))
    /\ (Notified ~> mpc = "joined")

\* a worker that evaluated the predicate before g_ready was set and blocked
\* after notify_all: no notification will come
C19_LostWakeup ==
    \E w \in Workers : wpc[w] = "blocked" /\ g_ready /\ Notified

====
